---- MODULE Spec2Model ----
(***************************************************************************)
(* Model of the toolbox repository:                                        *)
(*   - storage/service.go : the scheme-keyed storage facade                *)
(*   - value_provider.go  : the value provider registry and the built-in   *)
(*                          Cast, TimeDiff and Dictionary providers        *)
(***************************************************************************)
EXTENDS Integers, Sequences, FiniteSets, TLC

VARIABLES
    registry,   \* storageService.registry : map[string]Service
    lastReg,    \* history: per scheme, the backend of the latest registration
    calls,      \* backend methods invoked by the last facade operation
    ret,        \* the last storage call and what it returned
    vpRegistry, \* valueProviderRegistryImpl.registry : map[string]ValueProvider
    vpLast,     \* history: per name, the provider of the latest registration
    vpRet,      \* outcome of the last value provider registry call
    dict,       \* the MapDictionary stored in the context
    provRet     \* outcome of the last provider Get call

vars == <<registry, lastReg, calls, ret,
          vpRegistry, vpLast, vpRet, dict, provRet>>

storageVars == <<registry, lastReg, calls, ret>>
registryVars == <<vpRegistry, vpLast, vpRet>>
providerVars == <<dict, provRet>>

(***************************************************************************)
(* Bounds                                                                  *)
(***************************************************************************)
NumBackends == 2

(***************************************************************************)
(* Maps (Go map[string]T) as functions over the set of present keys        *)
(***************************************************************************)
EmptyMap == [k \in {} |-> 0]

MapPut(m, k, v) == [x \in (DOMAIN m) \cup {k} |-> IF x = k THEN v ELSE m[x]]

(***************************************************************************)
(* net/url.Parse, as far as the scheme is concerned.  A URL is a sequence  *)
(* of one-character strings.                                               *)
(***************************************************************************)
LowerSeq == <<"a","b","c","d","e","f","g","h","i","j","k","l","m",
              "n","o","p","q","r","s","t","u","v","w","x","y","z">>
UpperSeq == <<"A","B","C","D","E","F","G","H","I","J","K","L","M",
              "N","O","P","Q","R","S","T","U","V","W","X","Y","Z">>
SchemePunct == {"0","1","2","3","4","5","6","7","8","9","+","-","."}

Range(s) == {s[i] : i \in DOMAIN s}

LowerLetters == Range(LowerSeq)
UpperLetters == Range(UpperSeq)

IsLetter(c) == c \in LowerLetters \/ c \in UpperLetters

ToLowerChar(c) ==
    IF c \in UpperLetters
    THEN LowerSeq[CHOOSE i \in DOMAIN UpperSeq : UpperSeq[i] = c]
    ELSE c

RECURSIVE ToLowerString(_)
ToLowerString(cs) ==
    IF cs = <<>> THEN "" ELSE ToLowerChar(Head(cs)) \o ToLowerString(Tail(cs))

\* getScheme: scan for the first ':' behind a run of scheme characters
RECURSIVE getSchemeFrom(_, _)
getSchemeFrom(rawURL, i) ==
    IF i > Len(rawURL) THEN [scheme |-> <<>>, rest |-> rawURL, err |-> "nil"]
    ELSE LET c == rawURL[i] IN
         IF IsLetter(c) THEN getSchemeFrom(rawURL, i + 1)
         ELSE IF c \in SchemePunct
              THEN IF i = 1
                   THEN [scheme |-> <<>>, rest |-> rawURL, err |-> "nil"]
                   ELSE getSchemeFrom(rawURL, i + 1)
         ELSE IF c = ":"
              THEN IF i = 1
                   THEN [scheme |-> <<>>, rest |-> <<>>, err |-> "parseErr"]
                   ELSE [scheme |-> SubSeq(rawURL, 1, i - 1),
                         rest |-> SubSeq(rawURL, i + 1, Len(rawURL)),
                         err |-> "nil"]
         ELSE [scheme |-> <<>>, rest |-> rawURL, err |-> "nil"]

getScheme(rawURL) == getSchemeFrom(rawURL, 1)

\* the first path segment: rest up to the first '/'
RECURSIVE FirstSegment(_)
FirstSegment(rest) ==
    IF rest = <<>> \/ Head(rest) = "/" THEN <<>>
    ELSE <<Head(rest)>> \o FirstSegment(Tail(rest))

\* variant: a URL without a scheme is given the scheme file
urlParseDefaultFile(rawURL) ==
    LET g == getScheme(rawURL) IN
    IF g.err # "nil" THEN [Scheme |-> "", err |-> "parseErr"]
    ELSE LET scheme == ToLowerString(g.scheme) IN
         [Scheme |-> IF scheme = "" THEN "file" ELSE scheme, err |-> "nil"]

\* url.Parse: the parsed scheme (lower-cased) and the parse error
urlParse(rawURL) ==
    LET g == getScheme(rawURL) IN
    IF g.err # "nil" THEN [Scheme |-> "", err |-> "parseErr"]
    ELSE LET scheme == ToLowerString(g.scheme) IN
         IF (g.rest = <<>> \/ Head(g.rest) # "/") /\ scheme = ""
               /\ ":" \in Range(FirstSegment(g.rest))
         THEN [Scheme |-> "", err |-> "parseErr"]
         ELSE [Scheme |-> scheme, err |-> "nil"]

fileURL  == <<"f","i","l","e",":","/","a">>
upperURL == <<"M","E","M",":","/","a">>
ftpURL   == <<"f","t","p",":","/","a">>
s3URL    == <<"s","3",":","/","a">>
barePath == <<"/","a">>
noScheme == <<":","a">>

URLs == {fileURL, upperURL, ftpURL, s3URL, barePath, noScheme}

\* url.Parse over the URLs above
Parsed == [u \in URLs |-> urlParse(u)]

(***************************************************************************)
(* Backends                                                                *)
(***************************************************************************)
fileStorageService == [kind |-> "file", id |-> 0]
memoryService == [kind |-> "mem", id |-> 0]
UserBackends == [kind : {"user"}, id : 1..NumBackends]
Backends == {fileStorageService, memoryService} \cup UserBackends

\* stands for "no backend": the facade produced the value itself
NoBackend == [kind |-> "none", id |-> 0]

\* values and errors carry the backend that produced them
Nil == [tag |-> "nil", by |-> NoBackend]
Own(tag) == [tag |-> tag, by |-> NoBackend]
Of(tag, b) == [tag |-> tag, by |-> b]

\* what a method of backend b may hand back to the facade
BackendResults(b) == {[val |-> Of("value", b), err |-> Nil],
                      [val |-> Nil, err |-> Of("backendErr", b)]}

\* the schemes Register is called with
Schemas == {"mem", "s3", ""}

FacadeOps == {"List", "Exists", "StorageObject", "Download", "Upload", "Delete"}

\* the zero value each operation returns next to an error of its own
ZeroOf(op) == IF op = "Exists" THEN Own("false") ELSE Nil

NoRet == [op |-> "none", url |-> <<>>, val |-> Nil, err |-> Nil]

\* one invocation of a backend method (or of a provider factory)
Call(b, method, arg, r) ==
    [backend |-> b, method |-> method, arg |-> arg, result |-> r]

(***************************************************************************)
(* storageService                                                          *)
(***************************************************************************)
\* variant: an unknown scheme falls back to the local file backend
getServiceForSchemaFallback(reg, URL) ==
    LET parsedUrl == Parsed[URL] IN
    IF parsedUrl.err # "nil"
    THEN [service |-> NoBackend, err |-> Own(parsedUrl.err)]
    ELSE IF parsedUrl.Scheme \in DOMAIN reg
         THEN [service |-> reg[parsedUrl.Scheme], err |-> Nil]
         ELSE [service |-> reg["file"], err |-> Nil]

getServiceForSchema(reg, URL) ==
    LET parsedUrl == Parsed[URL] IN
    IF parsedUrl.err # "nil"
    THEN [service |-> NoBackend, err |-> Own(parsedUrl.err)]
    ELSE IF parsedUrl.Scheme \in DOMAIN reg
         THEN [service |-> reg[parsedUrl.Scheme], err |-> Nil]
         ELSE [service |-> NoBackend, err |-> Own("lookupErr")]

\* List, Exists, StorageObject, Upload take the URL; Download and Delete an
\* object whose URL() is url.  All six have the same shape.
Dispatch(op, url) ==
    LET s == getServiceForSchema(registry, url) IN
    /\ IF s.err # Nil
       THEN /\ calls' = <<>>
            /\ ret' = [op |-> op, url |-> url, val |-> ZeroOf(op), err |-> s.err]
       ELSE \E r \in BackendResults(s.service) :
            /\ calls' = <<Call(s.service, op, url, r)>>
            /\ ret' = [op |-> op, url |-> url, val |-> r.val, err |-> r.err]
    /\ UNCHANGED <<registry, lastReg>>
    /\ UNCHANGED <<registryVars, providerVars>>

List == \E url \in URLs : Dispatch("List", url)

Exists == \E url \in URLs : Dispatch("Exists", url)

StorageObject == \E url \in URLs : Dispatch("StorageObject", url)

Download == \E url \in URLs : Dispatch("Download", url)

Upload == \E url \in URLs : Dispatch("Upload", url)

Delete == \E url \in URLs : Dispatch("Delete", url)

\* variant: the first registration of a scheme is kept
RegisterIntoKeepFirst(reg, schema, service) ==
    IF schema \in DOMAIN reg THEN reg ELSE MapPut(reg, schema, service)

\* variant: registering starts the map afresh
RegisterIntoFresh(reg, schema, service) == [k \in {schema} |-> service]

RegisterInto(reg, schema, service) == MapPut(reg, schema, service)

Register ==
    \E schema \in Schemas, service \in UserBackends :
        /\ registry' = RegisterInto(registry, schema, service)
        /\ lastReg' = [lastReg EXCEPT ![schema] = service]
        /\ calls' = <<>>
        /\ ret' = [op |-> "Register", url |-> <<>>, val |-> Nil, err |-> Nil]
        /\ UNCHANGED <<registryVars, providerVars>>

NewService ==
    RegisterInto(RegisterInto(EmptyMap, "file", fileStorageService),
                 "mem", memoryService)

\* the orders in which a range over the map may visit its keys
IterationOrders(reg) ==
    {o \in [1..Cardinality(DOMAIN reg) -> DOMAIN reg] : Range(o) = DOMAIN reg}

\* variant: Close goes on after a failure and reports the last outcome
CloseVisitsAll(reg, order, failing) == order

\* the keys Close visits: it returns at the first service whose Close fails
RECURSIVE CloseVisits(_, _, _)
CloseVisits(reg, order, failing) ==
    IF order = <<>> THEN <<>>
    ELSE IF reg[Head(order)] \in failing THEN <<Head(order)>>
    ELSE <<Head(order)>> \o CloseVisits(reg, Tail(order), failing)

CloseResult(b, failing) ==
    [val |-> Nil, err |-> IF b \in failing THEN Of("closeErr", b) ELSE Nil]

\* failing: the backends whose Close returns an error
Close ==
    \E order \in IterationOrders(registry),
       failing \in SUBSET (Range(registry) \cap UserBackends) :
        LET visits == CloseVisits(registry, order, failing) IN
        /\ calls' = [i \in 1..Len(visits) |->
                        Call(registry[visits[i]], "Close", visits[i],
                             CloseResult(registry[visits[i]], failing))]
        /\ ret' = [op |-> "Close", url |-> <<>>, val |-> Nil,
                   err |-> IF visits = <<>> THEN Nil
                           ELSE CloseResult(registry[visits[Len(visits)]],
                                            failing).err,
                   failing |-> failing]
        /\ UNCHANGED <<registry, lastReg>>
        /\ UNCHANGED <<registryVars, providerVars>>

\* NewStorageProvider().Get(scheme) yields nil or a factory; a factory called
\* with the credential file yields a backend or an error
providedService == [kind |-> "provided", id |-> 0]
NilProvider == [isNil |-> TRUE, service |-> NoBackend, err |-> Nil]
Providers == {NilProvider,
              [isNil |-> FALSE, service |-> providedService, err |-> Nil],
              [isNil |-> FALSE, service |-> NoBackend,
               err |-> Own("factoryErr")]}
CredentialFiles == {"", "cred.json"}

\* variant: without a factory every scheme is accepted
NewServiceForURLResultAnyScheme(URL, credentialFile, provider) ==
    LET parsedURL == Parsed[URL]
        service == NewService
    IN
    IF parsedURL.err # "nil"
    THEN [val |-> Nil, service |-> EmptyMap, err |-> Own(parsedURL.err),
          calls |-> <<>>]
    ELSE IF ~provider.isNil
         THEN LET r == [val |-> IF provider.err = Nil
                                THEN Of("service", provider.service) ELSE Nil,
                        err |-> provider.err]
                  c == <<Call(NoBackend, "factory", credentialFile, r)>>
              IN
              IF provider.err # Nil
              THEN [val |-> Nil, service |-> EmptyMap,
                    err |-> Own("storageErr"), calls |-> c]
              ELSE [val |-> Own("service"),
                    service |-> RegisterInto(service, parsedURL.Scheme,
                                             provider.service),
                    err |-> Nil, calls |-> c]
         ELSE [val |-> Own("service"), service |-> service, err |-> Nil,
               calls |-> <<>>]

\* service: the registry of the facade returned, when one is returned
NewServiceForURLResult(URL, credentialFile, provider) ==
    LET parsedURL == Parsed[URL]
        service == NewService
    IN
    IF parsedURL.err # "nil"
    THEN [val |-> Nil, service |-> EmptyMap, err |-> Own(parsedURL.err),
          calls |-> <<>>]
    ELSE IF ~provider.isNil
         THEN LET r == [val |-> IF provider.err = Nil
                                THEN Of("service", provider.service) ELSE Nil,
                        err |-> provider.err]
                  c == <<Call(NoBackend, "factory", credentialFile, r)>>
              IN
              IF provider.err # Nil
              THEN [val |-> Nil, service |-> EmptyMap,
                    err |-> Own("storageErr"), calls |-> c]
              ELSE [val |-> Own("service"),
                    service |-> RegisterInto(service, parsedURL.Scheme,
                                             provider.service),
                    err |-> Nil, calls |-> c]
         ELSE IF parsedURL.Scheme # "file"
              THEN [val |-> Nil, service |-> EmptyMap,
                    err |-> Own("unsupported"), calls |-> <<>>]
              ELSE [val |-> Own("service"), service |-> service, err |-> Nil,
                    calls |-> <<>>]

\* provider: what the lookup of the URL's scheme among the factories yields
NewServiceForURL ==
    \E URL \in URLs, credentialFile \in CredentialFiles, provider \in Providers :
        LET r == NewServiceForURLResult(URL, credentialFile, provider) IN
        /\ calls' = r.calls
        /\ ret' = [op |-> "NewServiceForURL", url |-> URL, val |-> r.val,
                   err |-> r.err, service |-> r.service,
                   credentialFile |-> credentialFile, provider |-> provider]
        /\ UNCHANGED <<registry, lastReg>>
        /\ UNCHANGED <<registryVars, providerVars>>

(***************************************************************************)
(* valueProviderRegistryImpl                                               *)
(***************************************************************************)
NumProviders == 2
ProviderNames == {"env", "cast", "dict"}
ValueProviders == 1..NumProviders

NewValueProviderRegistry == EmptyMap

MapKeysToStringSlice(m) == DOMAIN m

NoVpRet == [op |-> "none", name |-> "", found |-> FALSE, provider |-> 0,
            names |-> {}, panicked |-> FALSE]

VPRegister ==
    \E name \in ProviderNames, valueProvider \in ValueProviders :
        /\ vpRegistry' = MapPut(vpRegistry, name, valueProvider)
        /\ vpLast' = [vpLast EXCEPT ![name] = valueProvider]
        /\ vpRet' = [NoVpRet EXCEPT !.op = "Register", !.name = name]
        /\ UNCHANGED <<storageVars, providerVars>>

registryContains(reg, name) == name \in DOMAIN reg

\* variant: an absent name yields a nil provider instead of a panic
registryGetNil(reg, name) ==
    IF name \in DOMAIN reg
    THEN [found |-> TRUE, provider |-> reg[name], panicked |-> FALSE]
    ELSE [found |-> FALSE, provider |-> 0, panicked |-> FALSE]

registryGet(reg, name) ==
    IF name \in DOMAIN reg
    THEN [found |-> TRUE, provider |-> reg[name], panicked |-> FALSE]
    ELSE [found |-> FALSE, provider |-> 0, panicked |-> TRUE]

VPContains ==
    \E name \in ProviderNames :
        /\ vpRet' = [NoVpRet EXCEPT !.op = "Contains", !.name = name,
                                    !.found = registryContains(vpRegistry, name)]
        /\ UNCHANGED <<vpRegistry, vpLast>>
        /\ UNCHANGED <<storageVars, providerVars>>

VPGet ==
    \E name \in ProviderNames :
        /\ vpRet' = LET r == registryGet(vpRegistry, name) IN
                    [NoVpRet EXCEPT !.op = "Get", !.name = name,
                                    !.found = r.found, !.provider = r.provider,
                                    !.panicked = r.panicked]
        /\ UNCHANGED <<vpRegistry, vpLast>>
        /\ UNCHANGED <<storageVars, providerVars>>

VPNames ==
    /\ vpRet' = [NoVpRet EXCEPT !.op = "Names",
                                !.names = MapKeysToStringSlice(vpRegistry)]
    /\ UNCHANGED <<vpRegistry, vpLast>>
    /\ UNCHANGED <<storageVars, providerVars>>

(***************************************************************************)
(* Provider arguments: interface{} values                                  *)
(***************************************************************************)
\* i: the number (for a time, the seconds since the epoch); ns: a time's
\* nanoseconds within the second; s: the text
StrV(t) == [kind |-> "string", i |-> 0, s |-> t, ns |-> 0]
IntV(n) == [kind |-> "int", i |-> n, s |-> "", ns |-> 0]
FloatV(n) == [kind |-> "float", i |-> n, s |-> "", ns |-> 0]
BoolV(b) == [kind |-> "bool", i |-> IF b THEN 1 ELSE 0, s |-> "", ns |-> 0]
TimeV(t) == [kind |-> "time", i |-> 0, s |-> t, ns |-> 0]
AtV(sec, nsec) == [kind |-> "time", i |-> sec, s |-> "", ns |-> nsec]
TextV(sec, nsec, format) == [kind |-> "text", i |-> sec, s |-> format, ns |-> nsec]
NilV == [kind |-> "nil", i |-> 0, s |-> "", ns |-> 0]

NoProvRet == [provider |-> "none", args |-> <<>>, val |-> NilV, err |-> "nil",
              panicked |-> FALSE]

\* converter.go is not part of the sources at hand: best-effort conversions
\* that never fail and fall back to the zero value
AsInt(v) ==
    IF v.kind \in {"int", "float", "bool"} THEN v.i
    ELSE IF v = StrV("12") THEN 12
    ELSE 0

AsFloat(v) ==
    IF v.kind \in {"int", "float"} THEN v.i
    ELSE IF v = StrV("12") THEN 12
    ELSE 0

AsBoolean(v) ==
    IF v.kind = "bool" THEN v.i = 1
    ELSE v = StrV("true")

AsString(v) ==
    IF v.kind = "string" THEN v.s
    ELSE IF v = IntV(7) THEN "7"
    ELSE IF v = BoolV(TRUE) THEN "true"
    ELSE ""

(***************************************************************************)
(* castedValueProvider                                                     *)
(***************************************************************************)
MaxArgs == 3
CastKeys == {"time", "int", "float", "bool", "string", "map"}
CastValues == {StrV("12"), StrV("abc"), StrV("true"), IntV(7), BoolV(TRUE), NilV}

\* variant: the bool case is missing from the switch
castedGetNoBool(arguments, parseOk) ==
    IF Len(arguments) = 0
    THEN [val |-> NilV, err |-> "nil", panicked |-> TRUE]
    ELSE
    LET key == arguments[1].s IN
    IF Len(arguments) < 2
    THEN [val |-> NilV, err |-> "argCountErr", panicked |-> FALSE]
    ELSE IF key = "time"
         THEN IF Len(arguments) # 3
              THEN [val |-> NilV, err |-> "argCountErr", panicked |-> FALSE]
              ELSE IF ~parseOk
                   THEN [val |-> NilV, err |-> "parseErr", panicked |-> FALSE]
                   ELSE [val |-> TimeV(AsString(arguments[2])), err |-> "nil",
                         panicked |-> FALSE]
    ELSE IF key = "int"
         THEN [val |-> IntV(AsInt(arguments[2])), err |-> "nil", panicked |-> FALSE]
    ELSE IF key = "float"
         THEN [val |-> FloatV(AsFloat(arguments[2])), err |-> "nil",
               panicked |-> FALSE]
    ELSE IF key = "string"
         THEN [val |-> StrV(AsString(arguments[2])), err |-> "nil",
               panicked |-> FALSE]
    ELSE [val |-> NilV, err |-> "unsupportedErr", panicked |-> FALSE]

\* ParseTime lives in time_format.go; whether the text conforms to the
\* pattern is an input
castedGet(arguments, parseOk) ==
    IF Len(arguments) = 0
    THEN [val |-> NilV, err |-> "nil", panicked |-> TRUE]
    ELSE
    LET key == arguments[1].s IN
    IF Len(arguments) < 2
    THEN [val |-> NilV, err |-> "argCountErr", panicked |-> FALSE]
    ELSE IF key = "time"
         THEN IF Len(arguments) # 3
              THEN [val |-> NilV, err |-> "argCountErr", panicked |-> FALSE]
              ELSE IF ~parseOk
                   THEN [val |-> NilV, err |-> "parseErr", panicked |-> FALSE]
                   ELSE [val |-> TimeV(AsString(arguments[2])), err |-> "nil",
                         panicked |-> FALSE]
    ELSE IF key = "int"
         THEN [val |-> IntV(AsInt(arguments[2])), err |-> "nil", panicked |-> FALSE]
    ELSE IF key = "float"
         THEN [val |-> FloatV(AsFloat(arguments[2])), err |-> "nil",
               panicked |-> FALSE]
    ELSE IF key = "bool"
         THEN [val |-> BoolV(AsBoolean(arguments[2])), err |-> "nil",
               panicked |-> FALSE]
    ELSE IF key = "string"
         THEN [val |-> StrV(AsString(arguments[2])), err |-> "nil",
               panicked |-> FALSE]
    ELSE [val |-> NilV, err |-> "unsupportedErr", panicked |-> FALSE]

\* argument lists: none, or a type name followed by up to MaxArgs - 1 values
CastArgLists ==
    {<<>>} \cup
    UNION {{<<StrV(k)>> \o vs : vs \in [1..n -> CastValues]} :
             k \in CastKeys, n \in 0..(MaxArgs - 1)}

CastGet ==
    \E arguments \in CastArgLists, parseOk \in BOOLEAN :
        LET r == castedGet(arguments, parseOk) IN
        /\ provRet' = [provider |-> "cast", args |-> arguments, val |-> r.val,
                       err |-> r.err, panicked |-> r.panicked]
        /\ UNCHANGED dict
        /\ UNCHANGED <<storageVars, registryVars>>

(***************************************************************************)
(* dictionaryProvider over a MapDictionary                                 *)
(***************************************************************************)
DictKeys == {"k1", "k2"}
DictValues == {StrV("v1"), IntV(7)}
Dictionaries == UNION {[ks -> DictValues] : ks \in SUBSET DictKeys}

MapDictionaryGet(d, name) ==
    IF name \in DOMAIN d
    THEN [val |-> d[name], err |-> "nil"]
    ELSE [val |-> NilV, err |-> "notFoundErr"]

MapDictionaryExists(d, name) == name \in DOMAIN d

\* variant: an absent key is a soft miss whatever the argument count
dictionaryGetAlwaysSoft(d, arguments) ==
    IF Len(arguments) = 0
    THEN [val |-> NilV, err |-> "noArgErr"]
    ELSE LET key == AsString(arguments[1]) IN
         IF ~MapDictionaryExists(d, key)
         THEN [val |-> NilV, err |-> "nil"]
         ELSE MapDictionaryGet(d, key)

dictionaryGet(d, arguments) ==
    IF Len(arguments) = 0
    THEN [val |-> NilV, err |-> "noArgErr"]
    ELSE LET key == AsString(arguments[1]) IN
         IF Len(arguments) = 1 /\ ~MapDictionaryExists(d, key)
         THEN [val |-> NilV, err |-> "nil"]
         ELSE MapDictionaryGet(d, key)

DictArgs == {StrV("k1"), StrV("k2"), StrV("k3")}
DictArgLists == UNION {[1..n -> DictArgs] : n \in 0..MaxArgs}

DictGet ==
    \E arguments \in DictArgLists :
        LET r == dictionaryGet(dict, arguments) IN
        /\ provRet' = [provider |-> "dict", args |-> arguments, val |-> r.val,
                       err |-> r.err, panicked |-> FALSE]
        /\ UNCHANGED dict
        /\ UNCHANGED <<storageVars, registryVars>>

(***************************************************************************)
(* timeDiffProvider                                                        *)
(***************************************************************************)
NanosPerSecond == 1000000000
NanosPerMilli == 1000000
SecondsPerMinute == 60
SecondsPerHour == 3600
HoursPerDay == 24
DaysPerWeek == 7

\* strings.ToLower on the words used here
StringsToLower(t) ==
    CASE t = "NOW" -> "now"
      [] t = "WEEK" -> "week"
      [] OTHER -> t

\* the duration chosen by the unit switch, in whole seconds
durationDelta(amount, unit) ==
    CASE StringsToLower(unit) = "day" -> (amount * HoursPerDay) * SecondsPerHour
      [] StringsToLower(unit) = "week" ->
             (amount * HoursPerDay * DaysPerWeek) * SecondsPerHour
      [] StringsToLower(unit) = "hour" -> amount * SecondsPerHour
      [] StringsToLower(unit) = "min" -> amount * SecondsPerMinute
      [] StringsToLower(unit) = "sec" -> amount
      [] OTHER -> 0

\* int(t.Unix() + t.UnixNano()) / divisor for a time at or after the epoch.
\* With UnixNano = sec * 10^9 + nsec and divisor dividing 10^9 this is
\* sec * (10^9 / divisor) + (sec + nsec) / divisor; written this way the
\* intermediate values stay within the model checker's integers.
UnixPlusUnixNanoOver(t, divisor) ==
    t.i * (NanosPerSecond \div divisor) + (t.i + t.ns) \div divisor

\* now: what time.Now() returns if it is called
timeDiffGet(arguments, now) ==
    LET n == Len(arguments)
        base == IF StringsToLower(AsString(arguments[1])) = "now"
                THEN now ELSE arguments[1]
        delta == IF n >= 3
                 THEN durationDelta(AsInt(arguments[2]), AsString(arguments[3]))
                 ELSE 0
        format == IF n = 4 THEN AsString(arguments[4]) ELSE ""
        resultTime == AtV(base.i + delta, base.ns)
    IN
    IF format = "unix"
    THEN [val |-> IntV(UnixPlusUnixNanoOver(resultTime, NanosPerSecond)),
          err |-> "nil", base |-> base]
    ELSE IF format = "timestamp"
    THEN [val |-> IntV(UnixPlusUnixNanoOver(resultTime, NanosPerMilli)),
          err |-> "nil", base |-> base]
    ELSE IF format # ""
    THEN [val |-> TextV(resultTime.i, resultTime.ns, format), err |-> "nil",
          base |-> base]
    ELSE [val |-> resultTime, err |-> "nil", base |-> base]

TwoWeeks == 14 * 86400
Times == {AtV(TwoWeeks, 0), AtV(TwoWeeks + 1, 999999999)}
Bases == Times \cup {StrV("now"), StrV("NOW")}
Amounts == {IntV(-2), IntV(0), IntV(1)}
Units == {StrV(u) : u \in {"day", "WEEK", "hour", "min", "sec", "year"}}
Formats == {StrV(f) : f \in {"unix", "timestamp", "yyyy-MM-dd", ""}}

TimeDiffArgLists ==
    {<<b>> : b \in Bases}
    \cup {<<b, a>> : b \in Bases, a \in Amounts}
    \cup {<<b, a, u>> : b \in Bases, a \in Amounts, u \in Units}
    \cup {<<b, a, u, f>> : b \in Bases, a \in Amounts, u \in Units, f \in Formats}

TimeDiffGet ==
    \E arguments \in TimeDiffArgLists :
    \E now \in IF StringsToLower(AsString(arguments[1])) = "now"
               THEN Times ELSE {arguments[1]} :
        LET r == timeDiffGet(arguments, now) IN
        /\ provRet' = [provider |-> "timediff", args |-> arguments,
                       val |-> r.val, err |-> r.err, panicked |-> FALSE,
                       base |-> r.base]
        /\ UNCHANGED dict
        /\ UNCHANGED <<storageVars, registryVars>>

(***************************************************************************)
(* Specifications                                                          *)
(***************************************************************************)
StorageInit ==
    /\ registry = NewService
    /\ lastReg = [s \in Schemas \cup {"file", "mem"} |->
                     CASE s = "file" -> fileStorageService
                       [] s = "mem" -> memoryService
                       [] OTHER -> NoBackend]
    /\ calls = <<>>
    /\ ret = NoRet

RegistryInit ==
    /\ vpRegistry = NewValueProviderRegistry
    /\ vpLast = [n \in ProviderNames |-> 0]
    /\ vpRet = NoVpRet

Init ==
    /\ StorageInit
    /\ RegistryInit
    /\ dict = EmptyMap
    /\ provRet = NoProvRet

\* the storage facade and its constructors
Next ==
    \/ List
    \/ Exists
    \/ StorageObject
    \/ Download
    \/ Upload
    \/ Delete
    \/ Register
    \/ Close
    \/ NewServiceForURL

Spec == Init /\ [][Next]_vars

\* the value provider registry
NextRegistry ==
    \/ VPRegister
    \/ VPContains
    \/ VPGet
    \/ VPNames

SpecRegistry == Init /\ [][NextRegistry]_vars

\* the Cast provider
NextCast == CastGet

SpecCast == Init /\ [][NextCast]_vars

\* the time difference provider
NextTimeDiff == TimeDiffGet

SpecTimeDiff == Init /\ [][NextTimeDiff]_vars

\* the dictionary provider, over every dictionary content
InitDict ==
    /\ StorageInit
    /\ RegistryInit
    /\ dict \in Dictionaries
    /\ provRet = NoProvRet

NextDict == DictGet

SpecDict == InitDict /\ [][NextDict]_vars

(***************************************************************************)
(* Properties of the storage facade                                        *)
(***************************************************************************)
\* the scheme a reader sees in each URL (the scheme is case-insensitive;
\* a bare path has none)
SchemeOf(u) ==
    CASE u = fileURL -> "file"
      [] u = upperURL -> "mem"
      [] u = ftpURL -> "ftp"
      [] u = s3URL -> "s3"
      [] OTHER -> ""

HasScheme(u) == u \in {fileURL, upperURL, ftpURL, s3URL}

\* a backend has been registered under s, at construction or by Register
Registered(s) == s \in DOMAIN lastReg /\ lastReg[s] # NoBackend

\* the last operation was handed to backend b and b's answer was returned
DelegatedTo(b) ==
    /\ Len(calls) = 1
    /\ calls[1].backend = b
    /\ calls[1].method = ret.op
    /\ calls[1].arg = ret.url
    /\ ret.val = calls[1].result.val
    /\ ret.err = calls[1].result.err

\* C1: a facade operation on a URL whose scheme has no registered backend
\* returns the scheme-lookup error and invokes no backend method.
C1_UnregisteredSchemeNoIO ==
    (ret.op \in FacadeOps /\ HasScheme(ret.url) /\ ~Registered(SchemeOf(ret.url)))
        => /\ ret.err = Own("lookupErr")
           /\ ret.val = ZeroOf(ret.op)
           /\ calls = <<>>

C1_Witness ==
    /\ ret.op = "Download"
    /\ ret.url = ftpURL
    /\ Registered("s3")
    /\ ret.err = Own("lookupErr")

\* C2: the registry holds exactly the latest registration of each scheme, and
\* an operation on a URL with a registered scheme s is delegated to the
\* backend most recently registered under s and to no other, its value and
\* error returned unchanged.
C2_LastRegistrationWins ==
    /\ \A s \in DOMAIN lastReg :
          IF lastReg[s] = NoBackend THEN s \notin DOMAIN registry
          ELSE s \in DOMAIN registry /\ registry[s] = lastReg[s]
    /\ DOMAIN registry \subseteq DOMAIN lastReg
    /\ (ret.op \in FacadeOps /\ HasScheme(ret.url) /\ Registered(SchemeOf(ret.url)))
          => DelegatedTo(lastReg[SchemeOf(ret.url)])

C2_Witness ==
    /\ ret.op = "Upload"
    /\ ret.url = upperURL
    /\ lastReg["mem"] \in UserBackends
    /\ lastReg["s3"] \in UserBackends
    /\ lastReg["s3"] # lastReg["mem"]
    /\ DelegatedTo(lastReg["mem"])

\* how often Close was invoked on backend b
CloseCount(b) == Cardinality({i \in DOMAIN calls : calls[i].backend = b})

\* Close stopped at the first failure and returned its error
FirstErrorReturned ==
    /\ \A i \in 1..(Len(calls) - 1) : calls[i].result.err = Nil
    /\ IF ret.err = Nil
       THEN \A i \in DOMAIN calls : calls[i].result.err = Nil
       ELSE /\ calls # <<>>
            /\ calls[Len(calls)].result.err = ret.err
            /\ ret.err.by = calls[Len(calls)].backend
            /\ ret.err.by \in ret.failing
    /\ (\E b \in Range(registry) : b \in ret.failing)
          => ret.err # Nil /\ ret.err.by \in ret.failing

\* C3 as stated: Close invokes Close on no backend more than once and, when
\* all succeed, on every registered backend exactly once; it stops at the
\* first failure and returns that backend's error.
C3_EachBackendClosedOnce ==
    ret.op = "Close"
        => /\ \A b \in Range(registry) : CloseCount(b) <= 1
           /\ ret.err = Nil => \A b \in Range(registry) : CloseCount(b) = 1
           /\ FirstErrorReturned

\* C3 amended: Close visits registry entries, each at most once and, when
\* all succeed, every entry exactly once, closing the backend of the entry;
\* it stops at the first failure and returns that backend's error.  A
\* backend registered under several schemes is closed once per scheme.
C3_EachEntryClosedOnce ==
    ret.op = "Close"
        => /\ \A i, j \in DOMAIN calls : calls[i].arg = calls[j].arg => i = j
           /\ \A i \in DOMAIN calls :
                 /\ calls[i].arg \in DOMAIN registry
                 /\ calls[i].backend = registry[calls[i].arg]
                 /\ calls[i].method = "Close"
           /\ ret.err = Nil => {calls[i].arg : i \in DOMAIN calls} = DOMAIN registry
           /\ FirstErrorReturned

C3_Witness ==
    /\ ret.op = "Close"
    /\ ret.err # Nil
    /\ Len(calls) >= 2
    /\ Len(calls) < Cardinality(DOMAIN registry)
    /\ \E b \in Range(registry) : b \in UserBackends /\ b \notin ret.failing

\* C4 as stated: a bare path implies the file scheme.
C4_BarePathIsFile ==
    /\ (ret.op \in FacadeOps /\ ret.url = barePath)
          => DelegatedTo(lastReg["file"])
    /\ (ret.op = "NewServiceForURL" /\ ret.url = barePath /\ ret.provider.err = Nil)
          => ret.err = Nil

\* C4 amended: a bare path has the empty scheme, not file.  A facade
\* operation on it goes to the backend registered under "" when there is
\* one and fails with the scheme-lookup error otherwise; NewServiceForURL
\* with a bare path and no factory for "" fails as unsupported.
C4_BarePathIsEmptyScheme ==
    /\ (ret.op \in FacadeOps /\ ret.url = barePath)
          => IF Registered("")
             THEN DelegatedTo(lastReg[""])
             ELSE ret.err = Own("lookupErr") /\ calls = <<>>
    /\ (ret.op = "NewServiceForURL" /\ ret.url = barePath /\ ret.provider.isNil)
          => ret.err = Own("unsupported") /\ ret.val = Nil

C4_Witness ==
    /\ ret.op = "List"
    /\ ret.url = barePath
    /\ ~Registered("")
    /\ ret.err = Own("lookupErr")
    /\ registry["file"] = fileStorageService

BuiltIns == [k \in {"file", "mem"} |->
               IF k = "file" THEN fileStorageService ELSE memoryService]

FactoryCalledWith(credentialFile) ==
    /\ Len(calls) = 1
    /\ calls[1].method = "factory"
    /\ calls[1].arg = credentialFile

\* C5: NewServiceForURL with a factory for the URL's scheme calls it with the
\* credential file and registers its backend next to the built-ins; a failing
\* factory fails the construction; without a factory the construction fails
\* as unsupported unless the scheme is file.  A facade that is returned has
\* a backend for the URL's scheme.
C5_Construction ==
    (ret.op = "NewServiceForURL" /\ ret.url # noScheme)
        => LET s == SchemeOf(ret.url)
               p == ret.provider
           IN
           /\ (~p.isNil /\ p.err = Nil)
                 => /\ ret.err = Nil
                    /\ ret.val # Nil
                    /\ FactoryCalledWith(ret.credentialFile)
                    /\ ret.service = [k \in {"file", "mem", s} |->
                                        IF k = s THEN p.service ELSE BuiltIns[k]]
           /\ (~p.isNil /\ p.err # Nil)
                 => /\ ret.err # Nil
                    /\ ret.val = Nil
                    /\ FactoryCalledWith(ret.credentialFile)
           /\ (p.isNil /\ s # "file")
                 => ret.err = Own("unsupported") /\ ret.val = Nil /\ calls = <<>>
           /\ (p.isNil /\ s = "file")
                 => ret.err = Nil /\ ret.val # Nil /\ ret.service = BuiltIns
                    /\ calls = <<>>
           /\ ret.err = Nil => s \in DOMAIN ret.service

C5_Witness ==
    /\ ret.op = "NewServiceForURL"
    /\ ret.url = s3URL
    /\ ret.credentialFile = "cred.json"
    /\ ~ret.provider.isNil
    /\ ret.err = Nil
    /\ ret.service["s3"] = providedService
    /\ FactoryCalledWith("cred.json")

\* C6: the registry starts as exactly file and mem; only Register changes
\* it, and only the entry it names; no scheme is ever removed.
C6_RegistryFrame ==
    /\ registry = BuiltIns
    /\ [][/\ ret'.op # "Register" => registry' = registry
          /\ ret'.op = "Register"
                => \E s \in Schemas :
                      /\ DOMAIN registry' = DOMAIN registry \cup {s}
                      /\ \A k \in DOMAIN registry \ {s} : registry'[k] = registry[k]
          /\ DOMAIN registry \subseteq DOMAIN registry'
          /\ {"file", "mem"} \subseteq DOMAIN registry']_vars

C6_Witness ==
    /\ ret.op = "Close"
    /\ ret.err # Nil
    /\ DOMAIN registry = {"file", "mem", "s3", ""}
    /\ registry["mem"] \in UserBackends

(***************************************************************************)
(* Properties of the value providers                                       *)
(***************************************************************************)
BestEffortTypes == {"int", "float", "bool", "string"}

CastOf(types) ==
    /\ provRet.provider = "cast"
    /\ Len(provRet.args) >= 1
    /\ provRet.args[1].s \in types

\* C7 as stated: Cast to int, float, bool or string never fails, whatever
\* follows the type name, a missing value argument included.
C7_CastNeverFails ==
    CastOf(BestEffortTypes)
        => /\ provRet.err = "nil"
           /\ ~provRet.panicked
           /\ provRet.val.kind = provRet.args[1].s

\* C7 amended: Cast to int, float, bool or string never fails when a value
\* argument is given: it returns a value of the target type and a nil
\* error.  Without a value argument it fails with the argument-count error.
C7_CastNeverFailsGivenValue ==
    CastOf(BestEffortTypes)
        => /\ ~provRet.panicked
           /\ Len(provRet.args) >= 2
                 => /\ provRet.err = "nil"
                    /\ provRet.val.kind = provRet.args[1].s
           /\ Len(provRet.args) = 1
                 => provRet.err = "argCountErr" /\ provRet.val = NilV

C7_Witness ==
    /\ CastOf({"bool"})
    /\ Len(provRet.args) = 2
    /\ provRet.args[2] = StrV("abc")
    /\ provRet.val = BoolV(FALSE)
    /\ provRet.err = "nil"

\* the length of each unit in seconds, as documented
UnitSeconds(unit) ==
    CASE unit \in {"day", "Day", "DAY"} -> 86400
      [] unit \in {"week", "Week", "WEEK"} -> 604800
      [] unit \in {"hour", "Hour", "HOUR"} -> 3600
      [] unit \in {"min", "Min", "MIN"} -> 60
      [] unit \in {"sec", "Sec", "SEC"} -> 1
      [] OTHER -> 0

\* C8: with "unix" as 4th argument the time difference provider returns the
\* whole seconds since the epoch of base + delta, with "timestamp" its
\* milliseconds since the epoch.
C8_UnixAndTimestamp ==
    (provRet.provider = "timediff" /\ Len(provRet.args) = 4)
        => LET sec == provRet.base.i
                        + provRet.args[2].i * UnitSeconds(provRet.args[3].s)
               nsec == provRet.base.ns
           IN
           /\ provRet.args[4] = StrV("unix") => provRet.val = IntV(sec)
           /\ provRet.args[4] = StrV("timestamp")
                 => provRet.val = IntV(sec * 1000 + nsec \div 1000000)

\* C9: the dictionary provider returns null and no error for a single
\* argument naming an absent key, the dictionary's not-found error for an
\* absent key and two or more arguments, the stored value and no error for
\* a present key, and an error for no argument; it never changes the
\* dictionary.
C9_DictionaryProvider ==
    /\ [](provRet.provider = "dict"
            => LET n == Len(provRet.args) IN
               /\ n = 0 => provRet.err # "nil"
               /\ n >= 1
                    => LET key == provRet.args[1].s IN
                       /\ (n = 1 /\ key \notin DOMAIN dict)
                             => provRet.val = NilV /\ provRet.err = "nil"
                       /\ (n >= 2 /\ key \notin DOMAIN dict)
                             => provRet.val = NilV /\ provRet.err = "notFoundErr"
                       /\ key \in DOMAIN dict
                             => provRet.val = dict[key] /\ provRet.err = "nil")
    /\ [][dict' = dict]_vars

C9_Witness ==
    /\ provRet.provider = "dict"
    /\ provRet.args = <<StrV("k3"), StrV("k1")>>
    /\ "k1" \in DOMAIN dict
    /\ provRet.err = "notFoundErr"

\* C10: Contains(name) holds exactly for the registered names; Get(name)
\* returns the provider most recently registered under name and panics for
\* a name never registered; Names() is the set of registered names;
\* Contains, Get and Names leave the registry as it is.
C10_ProviderRegistry ==
    /\ [](/\ vpRet.op = "Contains" => (vpRet.found <=> vpLast[vpRet.name] # 0)
          /\ vpRet.op = "Get"
                => IF vpLast[vpRet.name] # 0
                   THEN vpRet.provider = vpLast[vpRet.name] /\ ~vpRet.panicked
                   ELSE vpRet.panicked /\ vpRet.provider = 0
          /\ vpRet.op = "Names"
                => vpRet.names = {n \in ProviderNames : vpLast[n] # 0})
    /\ [][vpRet'.op \in {"Contains", "Get", "Names"}
             => vpRegistry' = vpRegistry]_vars

C10_Witness ==
    /\ vpRet.op = "Get"
    /\ vpRet.panicked
    /\ vpRet.name = "cast"
    /\ vpLast["env"] # 0
    /\ vpLast["dict"] # 0

====
